---- MODULE Spec2Model ----
(***************************************************************************)
(* Model of gemini_run_script.py: the retry loop around one remote call    *)
(* (generate_content_with_retry), the per-image wrapper that converts      *)
(* every exception into "no data" (get_bounding_boxes) and the sequential  *)
(* batch loop that collects the successful results and writes them         *)
(* (process_multiple_images).                                              *)
(***************************************************************************)
EXTENDS Integers, Sequences, FiniteSets, TLC

\* ---------------------------------------------------------------- constants
MAX_RETRIES == 5
INITIAL_DELAY == 2

\* ------------------------------------------------------------------- bounds
MaxItems == 3

\* the image paths of the input (two paths, so that a path can occur twice)
Paths == { [dir |-> "test", stem |-> "a", ext |-> ".jpg"],
           [dir |-> "test", stem |-> "b", ext |-> ".jpg"] }

\* values of the max_retries parameter: the default and everything below it,
\* down to a negative one
PolicyRange == (0 - 1)..MAX_RETRIES

RECURSIVE Pow(_, _)
\* b ** n for n >= 0
Pow(b, n) == IF n <= 0 THEN 1 ELSE b * Pow(b, n - 1)

RECURSIVE SeqsUpTo(_, _)
\* all sequences over S of length 0..n
SeqsUpTo(S, n) ==
    IF n = 0 THEN {<<>>}
    ELSE LET shorter == SeqsUpTo(S, n - 1)
         IN  shorter \cup {Append(s, x) : s \in {t \in shorter : Len(t) = n - 1}, x \in S}

\* --------------------------------------------------- the remote call's world
\* What client.models.generate_content can raise: an error has a kind (what
\* went wrong at the service) and the tokens of its str() text.
RetriableKinds == {"RateLimit", "InternalServerError", "ServiceUnavailable"}

Errors ==
    { [kind |-> "RateLimit",           msg |-> <<"429", "RESOURCE_EXHAUSTED">>],
      [kind |-> "InternalServerError", msg |-> <<"500", "InternalServerError">>],
      [kind |-> "ServiceUnavailable",  msg |-> <<"503", "ServiceUnavailable">>],
      [kind |-> "InvalidArgument",     msg |-> <<"400", "INVALID_ARGUMENT">>],
      \* a permanent error whose details happen to mention the number 500
      [kind |-> "InvalidArgument",     msg |-> <<"400", "INVALID_ARGUMENT", "500">>] }

NoError == [kind |-> "none", msg |-> <<>>]

\* What it can return: the text of the response
ResponseTexts == {"[]", "[d]", "null", "7", "oops"}

\* `sub in error_message`, on the tokens of the message
Contains(msg, tok) == \E k \in 1..Len(msg) : msg[k] = tok

\* the substrings of lines 35-40
RetriableMarkers ==
    {"RESOURCE_EXHAUSTED", "429", "InternalServerError", "500", "ServiceUnavailable", "503"}

\* mutant: range(max_retries + 1)
in_range_inclusive(att, maxr) == att <= maxr

\* line 22: attempt is one of range(max_retries)
in_range(att, maxr) == att < maxr

\* lines 32-41: error_message = str(e); is_retriable_error = ... in error_message
is_retriable_error(e) == \E tok \in RetriableMarkers : Contains(e.msg, tok)

\* mutant: `or` instead of `and`
should_retry_or(e, att, maxr) == is_retriable_error(e) \/ att < maxr - 1

\* mutant: off by one, `attempt < max_retries`
should_retry_late(e, att, maxr) == is_retriable_error(e) /\ att < maxr

\* mutant: gives up one attempt early
should_retry_early(e, att, maxr) == is_retriable_error(e) /\ att < maxr - 2

\* line 43: is_retriable_error and attempt < max_retries - 1
should_retry(e, att, maxr) == is_retriable_error(e) /\ att < maxr - 1

\* mutant: linear backoff
backoff_delay_linear(initial_delay, att) == initial_delay * (att + 1)

\* line 44: delay = initial_delay * (2 ** attempt)
backoff_delay(initial_delay, att) == initial_delay * Pow(2, att)

\* mutant: one log line for both cases
final_log_same(e) == "FatalAPIError"

\* lines 50-54: which of the two final log lines is printed
final_log(e) == IF is_retriable_error(e) THEN "RetryFailed" ELSE "FatalAPIError"

\* json.loads on the response text: a list of detections, null, a number
\* (a value without a length), or an error
NullValue == [null |-> TRUE, sized |-> FALSE, len |-> 0]

json_loads(text) ==
    CASE text = "[]"   -> [ok |-> TRUE,  value |-> [null |-> FALSE, sized |-> TRUE, len |-> 0]]
      [] text = "[d]"  -> [ok |-> TRUE,  value |-> [null |-> FALSE, sized |-> TRUE, len |-> 1]]
      [] text = "null" -> [ok |-> TRUE,  value |-> NullValue]
      [] text = "7"    -> [ok |-> TRUE,  value |-> [null |-> FALSE, sized |-> FALSE, len |-> 0]]
      [] OTHER         -> [ok |-> FALSE, value |-> NullValue]

\* line 86: os.path.splitext(os.path.basename(image_file_path))[0]
file_name_without_ext(path) == path.stem

\* mutant: the handler lets retry-exhaustion errors through
get_bounding_boxes_catches_fatal_only(e) == ~is_retriable_error(e)

\* lines 145-147: `except Exception` catches whatever the body raised
get_bounding_boxes_catches(e) == TRUE

\* mutant: only `file_data` is tested
is_valid_data_any(file_data) == ~file_data.none

\* mutant: truthiness test, `file_data.get("detections")` without `is not None`
is_valid_data_truthy(file_data) ==
    (~file_data.none) /\ (~file_data.detections.null) /\ file_data.detections.len > 0

\* line 160: file_data and file_data.get("detections") is not None
is_valid_data(file_data) == (~file_data.none) /\ (~file_data.detections.null)

NoData == [none |-> TRUE, file_name |-> "", detections |-> NullValue]

\* line 162: len(file_data['detections']) is defined for a list, not for a number
has_len(value) == value.sized

\* mutant: an entry with the same file_name is not added again
record_result_dedupe(results, entry) ==
    IF \E j \in DOMAIN results : results[j].file_name = entry.file_name
    THEN results
    ELSE Append(results, entry)

\* mutant: assignment instead of append
record_result_replace(results, entry) == <<entry>>

\* mutant: newest result first
record_result_prepend(results, entry) == <<entry>> \o results

\* line 161: all_results.append(file_data)
record_result(results, entry) == Append(results, entry)

\* ------------------------------------------------------------------- state
VARIABLES
    image_paths,   \* the input sequence of process_multiple_images
    max_retries,   \* the max_retries of generate_content_with_retry
    pc,            \* "loop" | "call" | "sleep" | "done" | "aborted"
    i,             \* number of items the for loop of line 155 has finished
    status,        \* per item: "pending", "running", "ok" or "failed"
    outcome,       \* how the last finished item ended: "ok" or the failure
    all_results,   \* line 151
    attempt,       \* the loop variable of line 22
    calls,         \* remote calls made by the current/last invocation
    delays,        \* the delays slept by the current/last invocation
    err,           \* the exception e of line 31 while it is bound, or the one raised
    onlyRetriable, \* every call of the invocation failed with a retriable kind
    invResult,     \* how the invocation ended: "none" (running or not entered),
                   \* "response", "raised", "returned_none"
    finalLog,      \* the final log line of the invocation, "" if none
    response,      \* the text of the response the invocation returned, or "none"
    callFailed,    \* some remote call of this run has raised
    written,       \* what json.dump wrote to the output file
    cancelledAt    \* value of i when the cancellation signal was raised, or -1

vars == <<image_paths, max_retries, pc, i, status, outcome, all_results, attempt, calls,
          delays, err, onlyRetriable, invResult, finalLog, response, callFailed,
          written, cancelledAt>>

invVars == <<attempt, calls, delays, err, onlyRetriable, invResult, finalLog, response>>

NotCancelled == 0 - 1

NothingWritten == [present |-> FALSE, content |-> <<>>]

N == Len(image_paths)

FailedStatuses ==
    {"not_found", "open_error", "no_response", "exhausted", "fatal",
     "bad_json", "null_detections", "type_error"}

Init ==
    /\ image_paths \in (SeqsUpTo(Paths, MaxItems) \ {<<>>})
    /\ max_retries \in PolicyRange
    /\ pc = "loop"
    /\ i = 0
    /\ status = [k \in 1..Len(image_paths) |-> "pending"]
    /\ outcome = "none"
    /\ all_results = <<>>
    /\ attempt = 0
    /\ calls = 0
    /\ delays = <<>>
    /\ err = NoError
    /\ onlyRetriable = TRUE
    /\ invResult = "none"
    /\ finalLog = ""
    /\ response = "none"
    /\ callFailed = FALSE
    /\ written = NothingWritten
    /\ cancelledAt = NotCancelled

\* lines 158-164 after get_bounding_boxes returned file_data for item i+1:
\* append or skip, and go to the next iteration; the len() of line 162 is
\* outside every try block, so its TypeError leaves process_multiple_images
LoopBody(file_data, failure) ==
    IF is_valid_data(file_data)
    THEN /\ all_results' = record_result(all_results,
                              [file_name |-> file_data.file_name,
                               detections |-> file_data.detections,
                               pos |-> i + 1])
         /\ status' = [status EXCEPT ![i + 1] = "ok"]
         /\ IF has_len(file_data.detections)
            THEN /\ outcome' = "ok"
                 /\ i' = i + 1
                 /\ pc' = "loop"
            ELSE /\ outcome' = "type_error"
                 /\ i' = i
                 /\ pc' = "aborted"
    ELSE /\ all_results' = all_results
         /\ status' = [status EXCEPT ![i + 1] = "failed"]
         /\ outcome' = failure
         /\ i' = i + 1
         /\ pc' = "loop"

\* an exception e reaches the handler of get_bounding_boxes (lines 145-147)
Handler(e, failure) ==
    IF get_bounding_boxes_catches(e)
    THEN LoopBody(NoData, failure)
    ELSE /\ pc' = "aborted"
         /\ status' = [status EXCEPT ![i + 1] = "failed"]
         /\ outcome' = failure
         /\ UNCHANGED <<i, all_results>>

\* mutant: the counters are shared by all items
ResetInvocation_shared ==
    /\ attempt' = attempt
    /\ calls' = calls
    /\ delays' = delays
    /\ err' = NoError
    /\ onlyRetriable' = TRUE
    /\ finalLog' = ""
    /\ response' = "none"

\* lines 21-22: every call of generate_content_with_retry starts a new loop
ResetInvocation ==
    /\ attempt' = 0
    /\ calls' = 0
    /\ delays' = <<>>
    /\ err' = NoError
    /\ onlyRetriable' = TRUE
    /\ finalLog' = ""
    /\ response' = "none"

\* lines 155-158, 79-83: the file of the next item does not exist
ItemNotFound ==
    /\ pc = "loop" /\ i < N
    /\ ResetInvocation
    /\ invResult' = "none"
    /\ LoopBody(NoData, "not_found")
    /\ UNCHANGED <<image_paths, max_retries, callFailed, written, cancelledAt>>

\* lines 155-158, 79-85: genai.Client() or Image.open raises
ItemOpenFails ==
    /\ pc = "loop" /\ i < N
    /\ ResetInvocation
    /\ invResult' = "none"
    /\ Handler(NoError, "open_error")
    /\ UNCHANGED <<image_paths, max_retries, callFailed, written, cancelledAt>>

\* lines 155-158, 79-129, 21-22: the item reaches generate_content_with_retry;
\* with an empty range(max_retries) the loop body never runs, line 58 returns
\* None, line 131 is skipped and line 135 raises on None.text
EnterInvoker ==
    /\ pc = "loop" /\ i < N
    /\ ResetInvocation
    /\ IF in_range(0, max_retries)
       THEN /\ pc' = "call"
            /\ invResult' = "none"
            /\ status' = [status EXCEPT ![i + 1] = "running"]
            /\ UNCHANGED <<i, outcome, all_results>>
       ELSE /\ invResult' = "returned_none"
            /\ Handler(NoError, "no_response")
    /\ UNCHANGED <<image_paths, max_retries, callFailed, written, cancelledAt>>

\* lines 24-29, 131-143, 160-164: the call returns a response
CallReturns(text) ==
    /\ pc = "call"
    /\ calls' = calls + 1
    /\ invResult' = "response"
    /\ response' = text
    /\ LET parsed == json_loads(text)
       IN  IF parsed.ok
           THEN LoopBody([none |-> FALSE,
                          file_name |-> file_name_without_ext(image_paths[i + 1]),
                          detections |-> parsed.value], "null_detections")
           ELSE Handler(NoError, "bad_json")
    /\ UNCHANGED <<image_paths, max_retries, attempt, delays, err, onlyRetriable,
                   finalLog, callFailed, written, cancelledAt>>

\* lines 24-56, 145-147: the call raises e
CallRaises(e) ==
    /\ pc = "call"
    /\ calls' = calls + 1
    /\ err' = e
    /\ callFailed' = TRUE
    /\ onlyRetriable' = (onlyRetriable /\ e.kind \in RetriableKinds)
    /\ IF should_retry(e, attempt, max_retries)
       THEN /\ delays' = Append(delays, backoff_delay(INITIAL_DELAY, attempt))
            /\ pc' = "sleep"
            /\ UNCHANGED <<invResult, finalLog, i, status, outcome, all_results>>
       ELSE /\ finalLog' = final_log(e)
            /\ invResult' = "raised"
            /\ delays' = delays
            /\ Handler(e, IF is_retriable_error(e) THEN "exhausted" ELSE "fatal")
    /\ UNCHANGED <<image_paths, max_retries, attempt, response, written, cancelledAt>>

\* line 48 returns, the except block ends (e is unbound again) and line 22
\* takes the next attempt
SleepReturns ==
    /\ pc = "sleep"
    /\ attempt' = attempt + 1
    /\ err' = NoError
    /\ IF in_range(attempt + 1, max_retries)
       THEN /\ pc' = "call"
            /\ UNCHANGED <<invResult, i, status, outcome, all_results>>
       ELSE \* range(max_retries) is used up: line 58 returns None
            /\ invResult' = "returned_none"
            /\ Handler(NoError, "no_response")
    /\ UNCHANGED <<image_paths, max_retries, calls, delays, onlyRetriable, finalLog,
                   response, callFailed, written, cancelledAt>>

\* lines 166-175: the loop is over, the results are written
SaveOk ==
    /\ pc = "loop" /\ i = N
    /\ written' = [present |-> TRUE, content |-> all_results]
    /\ pc' = "done"
    /\ UNCHANGED <<image_paths, max_retries, i, status, outcome, all_results, invVars,
                   callFailed, cancelledAt>>

\* lines 166-177: open() or json.dump raises, the error is printed
SaveFails ==
    /\ pc = "loop" /\ i = N
    /\ pc' = "done"
    /\ UNCHANGED <<image_paths, max_retries, i, status, outcome, all_results, invVars,
                   callFailed, written, cancelledAt>>

\* an external cancellation signal is raised between two items; nothing in
\* lines 155-164 reads it
Cancel ==
    /\ pc = "loop"
    /\ cancelledAt = NotCancelled
    /\ cancelledAt' = i
    /\ UNCHANGED <<image_paths, max_retries, pc, i, status, outcome, all_results, invVars,
                   callFailed, written>>

Next ==
    \/ ItemNotFound
    \/ ItemOpenFails
    \/ EnterInvoker
    \/ \E text \in ResponseTexts : CallReturns(text)
    \/ \E e \in Errors : CallRaises(e)
    \/ SleepReturns
    \/ SaveOk
    \/ SaveFails
    \/ Cancel

Spec == Init /\ [][Next]_vars

\* every call, sleep and file operation returns
Progress ==
    \/ ItemNotFound
    \/ ItemOpenFails
    \/ EnterInvoker
    \/ \E text \in ResponseTexts : CallReturns(text)
    \/ \E e \in Errors : CallRaises(e)
    \/ SleepReturns
    \/ SaveOk
    \/ SaveFails

FairSpec == Init /\ [][Next]_vars /\ WF_vars(Progress)

TypeOK ==
    /\ pc \in {"loop", "call", "sleep", "done", "aborted"}
    /\ i \in 0..N
    /\ max_retries \in PolicyRange
    /\ \A k \in 1..N : status[k] \in {"pending", "running", "ok", "failed"}
    /\ outcome \in {"none", "ok"} \cup FailedStatuses
    /\ calls \in 0..MAX_RETRIES
    /\ attempt \in 0..MAX_RETRIES
    /\ invResult \in {"none", "response", "raised", "returned_none"}
    /\ finalLog \in {"", "RetryFailed", "FatalAPIError"}
    /\ response \in {"none"} \cup ResponseTexts
    /\ callFailed \in BOOLEAN
    /\ cancelledAt \in (0 - 1)..N

\* ------------------------------------------------------------------ helpers
Succeeded == {k \in 1..N : status[k] = "ok"}
Failed    == {k \in 1..N : status[k] = "failed"}
EntriesOf(k) == {j \in DOMAIN all_results : all_results[j].pos = k}
InvocationEnded == invResult \in {"response", "raised", "returned_none"}

\* ------------------------------------------------------------------- claims

C2_FailureNeverAbortsBatch ==
    /\ <>(\A k \in 1..N : status[k] # "pending")
    /\ [](pc # "aborted")

\* an item ended with retries exhausted or a fatal error and the next one runs
C2_Witness ==
    /\ i >= 1
    /\ outcome \in {"exhausted", "fatal"}
    /\ pc = "call"
    /\ status[i + 1] = "running"

\* C3: the entries of the results are in input order.
C3_ResultsInInputOrder ==
    /\ \A a, b \in DOMAIN all_results :
          a < b => all_results[a].pos < all_results[b].pos
    /\ written.present =>
          \A a, b \in DOMAIN written.content :
              a < b => written.content[a].pos < written.content[b].pos

C3_Witness ==
    /\ N >= 3
    /\ status[1] = "ok" /\ status[2] = "failed" /\ status[3] = "ok"
    /\ Len(all_results) = 2
    /\ written.present

\* C4: an invocation that returns a response after k failed calls has made
\* k+1 calls and slept k delays, the j-th being INITIAL_DELAY * 2^(j-1).
C4_BackoffSchedule ==
    invResult = "response" =>
        /\ calls <= max_retries
        /\ Len(delays) = calls - 1
        /\ \A j \in 1..Len(delays) : delays[j] = INITIAL_DELAY * Pow(2, j - 1)

\* three retriable failures, then a response
C4_Witness ==
    /\ invResult = "response"
    /\ onlyRetriable
    /\ calls = 4
    /\ delays = <<2, 4, 8>>

\* C5: an invocation whose every call failed with a retriable error ends by
\* raising after exactly max_retries calls, logged as failed retries, and
\* makes no further call.
C5_ExhaustedAfterMaxRetries ==
    (InvocationEnded /\ onlyRetriable /\ invResult # "response" /\ max_retries >= 1) =>
        /\ invResult = "raised"
        /\ calls = max_retries
        /\ finalLog = "RetryFailed"
        /\ outcome = "exhausted"
        /\ pc \notin {"call", "sleep"}

C5_Witness ==
    /\ invResult = "raised"
    /\ onlyRetriable
    /\ max_retries = MAX_RETRIES
    /\ calls = MAX_RETRIES
    /\ Len(delays) = MAX_RETRIES - 1

C7_RetryDecidedByKind ==
    pc = "sleep" => err.kind \in RetriableKinds

\* C8 (as stated): once the cancellation signal is raised between two items,
\* no later item is attempted and what is written holds only the results of
\* the items finished before the signal.
C8_CancelStopsBatch ==
    cancelledAt # NotCancelled =>
        /\ \A k \in 1..N : k > cancelledAt => status[k] = "pending"
        /\ written.present => \A j \in DOMAIN written.content :
                                   written.content[j].pos <= cancelledAt

\* C9 (as stated): with max_retries <= 0 the invocation makes no call and
\* ends in an error, not in a normal return.
C9_NonPositiveRetriesRejected ==
    max_retries <= 0 =>
        /\ calls = 0
        /\ invResult # "returned_none"

\* C10 (as stated): a batch run with max_retries = 0 makes no remote call,
\* treats no item as an individual failure and writes no report.
C10_ZeroRetriesAbortsRun ==
    max_retries = 0 =>
        /\ calls = 0
        /\ Failed = {}
        /\ ~written.present

RECURSIVE SumSeq(_)
\* the total of a sequence of delays
SumSeq(q) == IF q = <<>> THEN 0 ELSE Head(q) + SumSeq(Tail(q))

WrittenEntriesOf(k) == {j \in DOMAIN written.content : written.content[j].pos = k}

C12_AlwaysSucceeding ==
    ~callFailed =>
        /\ delays = <<>>
        /\ pc # "sleep"
        /\ finalLog = ""
        /\ calls <= 1
        /\ (InvocationEnded /\ max_retries >= 1) => (invResult = "response" /\ calls = 1)
        /\ (invResult = "response" /\ response \in {"[]", "[d]"}) =>
               (outcome = "ok" /\ status[i] = "ok" /\ EntriesOf(i) # {})

C12_Witness ==
    /\ pc = "done"
    /\ ~callFailed
    /\ N >= 2
    /\ Succeeded = 1..N
    /\ response = "[]"
    /\ written.present

C14_TotalWaitAsStated ==
    (invResult = "raised" /\ onlyRetriable /\ max_retries >= 1) =>
        SumSeq(delays) = INITIAL_DELAY * (Pow(2, max_retries) - 1)

\* C14 (amended): the total wait of an invocation is at most
\* INITIAL_DELAY * (2^(max_retries - 1) - 1), and is exactly that when every
\* attempt fails with a retriable error: no delay follows the last attempt.
C14_TotalWaitBound ==
    max_retries >= 1 =>
        /\ SumSeq(delays) <= INITIAL_DELAY * (Pow(2, max_retries - 1) - 1)
        /\ (invResult = "raised" /\ onlyRetriable) =>
               SumSeq(delays) = INITIAL_DELAY * (Pow(2, max_retries - 1) - 1)

C14_Witness ==
    /\ invResult = "raised"
    /\ onlyRetriable
    /\ max_retries = MAX_RETRIES
    /\ SumSeq(delays) = 30

\* C15: the remote calls made for one item never exceed max_retries (none
\* at all when max_retries is not positive).
C15_CallsBounded ==
    calls <= (IF max_retries > 0 THEN max_retries ELSE 0)

\* the budget is used up by a mix of retriable and misclassified failures
C15_Witness ==
    /\ max_retries = 3
    /\ calls = 3
    /\ ~onlyRetriable
    /\ i >= 1

\* C16: the counters of an invocation depend on its own attempts only: while
\* it runs, its calls and delays are those of its own loop variable, its
\* first delay is INITIAL_DELAY, and retries are exhausted after exactly
\* max_retries calls, whatever the earlier items used.
C16_OwnRetryBudget ==
    /\ pc = "call" => (calls = attempt /\ Len(delays) = attempt)
    /\ pc = "sleep" => (calls = attempt + 1 /\ Len(delays) = attempt + 1)
    /\ delays # <<>> => delays[1] = INITIAL_DELAY
    /\ (invResult = "raised" /\ finalLog = "RetryFailed") => calls = max_retries

\* the item before used up its retries, this one waits for its first retry
C16_Witness ==
    /\ i >= 1
    /\ outcome = "exhausted"
    /\ pc = "sleep"
    /\ delays = <<INITIAL_DELAY>>

InvalidResponses == {"oops", "null", "7"}

\* C17 (as stated): a response that cannot be parsed or is structurally
\* invalid ends its item as a failure without another call, and the batch
\* goes on.
C17_InvalidResponseFailsItem ==
    (invResult = "response" /\ response \in InvalidResponses) =>
        /\ pc \in {"loop", "done"}
        /\ status[i] = "failed"
        /\ EntriesOf(i) = {}

\* C18 (as stated): every run ends with the results handed to the sink, and
\* only after the last item is finished.
C18_TerminatesAndSaves ==
    /\ <>(pc = "done")
    /\ [](written.present => (pc = "done" /\ i = N))

\* C19: a delay is slept only when another attempt follows it: the sleep is
\* followed by a call of the same invocation, and an ended invocation has
\* slept one delay less than it made calls.
C19_SleepsOnlyBetweenAttempts ==
    /\ [](pc = "sleep" => (in_range(attempt + 1, max_retries) /\ Len(delays) = calls))
    /\ []((InvocationEnded /\ calls >= 1) => Len(delays) = calls - 1)
    /\ [][pc = "sleep" => (pc' = "call" /\ calls' = calls /\ i' = i)]_vars

\* the wait before the last attempt
C19_Witness ==
    /\ pc = "sleep"
    /\ max_retries = MAX_RETRIES
    /\ Len(delays) = MAX_RETRIES - 1

\* C20: an item has an entry exactly when its invocation returned a response
\* that parses to a non-null value; an empty list is a success, null is not;
\* what is written is the list of these entries, as many as succeeded items.
C20_EntryIffNonNullDetections ==
    /\ (i >= 1 /\ pc \in {"loop", "done"}) =>
          (status[i] = "ok" <=>
              (/\ invResult = "response"
               /\ json_loads(response).ok
               /\ ~json_loads(response).value.null))
    /\ \A k \in 1..N : (EntriesOf(k) # {}) <=> (status[k] = "ok")
    /\ \A j \in DOMAIN all_results : ~all_results[j].detections.null
    /\ (response = "[]" /\ pc \in {"loop", "done"}) =>
          (status[i] = "ok" /\ all_results[Len(all_results)].detections.len = 0)
    /\ (response = "null" /\ pc \in {"loop", "done"}) => status[i] = "failed"
    /\ written.present =>
          (written.content = all_results /\ Len(written.content) = Cardinality(Succeeded))

C20_Witness ==
    /\ pc = "done"
    /\ written.present
    /\ response = "[]"
    /\ status[N] = "ok"
    /\ Failed # {}

====
